---- MODULE Spec2Model ----
(***************************************************************************)
(* Model of the payments engine (src/src/engine.rs, src/src/account.rs).   *)
(* The engine owns two tables: accounts (client id -> Account) and         *)
(* deposits (tx id -> StoredDeposit).  PaymentEngine::process applies one  *)
(* TransactionRecord and returns Ok(()) or a PaymentError.                 *)
(* Amounts are modelled as integers: a count of quarters (0.25), values   *)
(* that an f64 and a Decimal both hold exactly; the Option around an       *)
(* amount is a record with a `some` flag.                                  *)
(***************************************************************************)
EXTENDS Integers, FiniteSets

\* ---- bounds of the model ----
\* the transaction ids the caller uses are 1..MaxTx (u32 in the code)
MaxTx == 2

TxIds == 1..MaxTx

\* sample client ids (u16 in the code): a call involves the client it names and at
\* most the owner of the deposit it names, so two clients show every case of a call
Clients == {1, 2}

\* sample amounts, in quarters: -0.25, 0, 0.25, 0.5. transaction.rs 19 declares the
\* field Option<f64>; engine.rs 49-51, 65, 68 take it as Option<Decimal>, the type of
\* Account::available and Account::held (account.rs 8-9), and its tests build records with
\* dec!(..) amounts. A multiple of 0.25 is the same number in both types, and every
\* sum and difference the engine forms from such amounts is exact in Decimal
AmountValues == {-1, 0, 1, 2}

\* ---- transaction.rs ----
TransactionType == {"Deposit", "Withdrawal", "Dispute", "Resolve", "Chargeback"}

None == [some |-> FALSE, val |-> 0]
Some(v) == [some |-> TRUE, val |-> v]
Amounts == {None} \cup {Some(v) : v \in AmountValues}

TransactionRecord == [tx_type : TransactionType, client : Clients, tx : TxIds, amount : Amounts]

\* ---- error.rs: the error kinds process can return, and Ok ----
PaymentError == {"AccountFrozen", "MissingAmount", "DuplicateTransaction", "InvalidAmount",
                 "InsufficientFunds", "TransactionNotFound", "AlreadyUnderDispute",
                 "NotUnderDispute"}
Ok == "Ok"
\* .expect("account must exist if deposit exists") failing: the call does not return
Panic == "Panic"

\* ---- account.rs ----
AccountNew(client) == [client |-> client, available |-> 0, held |-> 0, locked |-> FALSE]

total(account) == account.available + account.held

\* ---- engine.rs ----
StoredDeposit(client, amount, disputed) == [client |-> client, amount |-> amount, disputed |-> disputed]

\* HashMap::insert / entry().or_insert_with() on a map modelled as a function
MapInsert(map, key, value) == [k \in (DOMAIN map) \cup {key} |-> IF k = key THEN value ELSE map[k]]

OrInsertAccount(accts, client) == IF client \in DOMAIN accts THEN accts ELSE MapInsert(accts, client, AccountNew(client))

\* PaymentEngine::new (Default): both maps empty
EmptyAccounts == [c \in {} |-> AccountNew(c)]
EmptyDeposits == [t \in {} |-> StoredDeposit(0, 0, FALSE)]

\* what a handler hands back: the engine's two maps after the call and the Result
Return(accts, deps, result) == [accounts |-> accts, deposits |-> deps, result |-> result]

\* mutants of the guard: applied to deposits and withdrawals only; never applied
AccountIsFrozenOnlyMoney(accts, tx) ==
    tx.client \in DOMAIN accts /\ accts[tx.client].locked /\ tx.tx_type \in {"Deposit", "Withdrawal"}

AccountIsFrozenNever(accts, tx) == FALSE

\* mutant of the guard: chargebacks pass a locked account
AccountIsFrozenExceptChargeback(accts, tx) ==
    tx.client \in DOMAIN accts /\ accts[tx.client].locked /\ tx.tx_type # "Chargeback"

\* the guard at the top of process: an account exists for tx.client and is locked
AccountIsFrozen(accts, tx) == tx.client \in DOMAIN accts /\ accts[tx.client].locked

\* mutant of deposit: no duplicate-id check, the stored record is overwritten
depositOverwrites(accts, deps, tx) ==
    IF ~tx.amount.some THEN Return(accts, deps, "MissingAmount")
    ELSE IF tx.amount.val <= 0 THEN Return(accts, deps, "InvalidAmount")
    ELSE LET a1 == OrInsertAccount(accts, tx.client)
             a2 == [a1 EXCEPT ![tx.client].available = @ + tx.amount.val]
             d2 == MapInsert(deps, tx.tx, StoredDeposit(tx.client, tx.amount.val, FALSE))
         IN Return(a2, d2, Ok)

\* mutant of deposit: the balance is set to the amount instead of growing by it
depositSetsBalance(accts, deps, tx) ==
    IF ~tx.amount.some THEN Return(accts, deps, "MissingAmount")
    ELSE IF tx.amount.val <= 0 THEN Return(accts, deps, "InvalidAmount")
    ELSE IF tx.tx \in DOMAIN deps THEN Return(accts, deps, "DuplicateTransaction")
    ELSE LET a1 == OrInsertAccount(accts, tx.client)
             a2 == [a1 EXCEPT ![tx.client].available = tx.amount.val]
             d2 == MapInsert(deps, tx.tx, StoredDeposit(tx.client, tx.amount.val, FALSE))
         IN Return(a2, d2, Ok)

\* mutant of deposit: the duplicate-id check runs before the amount checks
depositDupFirst(accts, deps, tx) ==
    IF tx.tx \in DOMAIN deps THEN Return(accts, deps, "DuplicateTransaction")
    ELSE IF ~tx.amount.some THEN Return(accts, deps, "MissingAmount")
    ELSE IF tx.amount.val <= 0 THEN Return(accts, deps, "InvalidAmount")
    ELSE LET a1 == OrInsertAccount(accts, tx.client)
             a2 == [a1 EXCEPT ![tx.client].available = @ + tx.amount.val]
             d2 == MapInsert(deps, tx.tx, StoredDeposit(tx.client, tx.amount.val, FALSE))
         IN Return(a2, d2, Ok)

deposit(accts, deps, tx) ==
    IF ~tx.amount.some THEN Return(accts, deps, "MissingAmount")
    ELSE IF tx.amount.val <= 0 THEN Return(accts, deps, "InvalidAmount")
    ELSE IF tx.tx \in DOMAIN deps THEN Return(accts, deps, "DuplicateTransaction")
    ELSE LET a1 == OrInsertAccount(accts, tx.client)
             a2 == [a1 EXCEPT ![tx.client].available = @ + tx.amount.val]
             d2 == MapInsert(deps, tx.tx, StoredDeposit(tx.client, tx.amount.val, FALSE))
         IN Return(a2, d2, Ok)

\* mutant of withdrawal: the funds check is not strict, an exact balance is refused
withdrawalNonStrict(accts, deps, tx) ==
    IF ~tx.amount.some THEN Return(accts, deps, "MissingAmount")
    ELSE IF tx.amount.val <= 0 THEN Return(accts, deps, "InvalidAmount")
    ELSE LET a1 == OrInsertAccount(accts, tx.client)
         IN IF a1[tx.client].available <= tx.amount.val
            THEN Return(a1, deps, "InsufficientFunds")
            ELSE Return([a1 EXCEPT ![tx.client].available = @ - tx.amount.val], deps, Ok)

\* mutant of withdrawal: the funds check reads the balance without creating the account
withdrawalNoCreate(accts, deps, tx) ==
    IF ~tx.amount.some THEN Return(accts, deps, "MissingAmount")
    ELSE IF tx.amount.val <= 0 THEN Return(accts, deps, "InvalidAmount")
    ELSE IF tx.client \notin DOMAIN accts
         THEN Return(accts, deps, "InsufficientFunds")
         ELSE IF accts[tx.client].available < tx.amount.val
              THEN Return(accts, deps, "InsufficientFunds")
              ELSE Return([accts EXCEPT ![tx.client].available = @ - tx.amount.val],
                          deps, Ok)

\* mutant of withdrawal: a successful withdrawal is stored like a deposit
withdrawalRecords(accts, deps, tx) ==
    IF ~tx.amount.some THEN Return(accts, deps, "MissingAmount")
    ELSE IF tx.amount.val <= 0 THEN Return(accts, deps, "InvalidAmount")
    ELSE LET a1 == OrInsertAccount(accts, tx.client)
         IN IF a1[tx.client].available < tx.amount.val
            THEN Return(a1, deps, "InsufficientFunds")
            ELSE Return([a1 EXCEPT ![tx.client].available = @ - tx.amount.val],
                        MapInsert(deps, tx.tx, StoredDeposit(tx.client, tx.amount.val, FALSE)),
                        Ok)

\* mutant of withdrawal: one quarter more than the amount leaves the account
withdrawalTakesFee(accts, deps, tx) ==
    IF ~tx.amount.some THEN Return(accts, deps, "MissingAmount")
    ELSE IF tx.amount.val <= 0 THEN Return(accts, deps, "InvalidAmount")
    ELSE LET a1 == OrInsertAccount(accts, tx.client)
         IN IF a1[tx.client].available < tx.amount.val
            THEN Return(a1, deps, "InsufficientFunds")
            ELSE Return([a1 EXCEPT ![tx.client].available = @ - tx.amount.val - 1], deps, Ok)

\* mutant of withdrawal: no funds check
withdrawalUnchecked(accts, deps, tx) ==
    IF ~tx.amount.some THEN Return(accts, deps, "MissingAmount")
    ELSE IF tx.amount.val <= 0 THEN Return(accts, deps, "InvalidAmount")
    ELSE LET a1 == OrInsertAccount(accts, tx.client)
         IN Return([a1 EXCEPT ![tx.client].available = @ - tx.amount.val], deps, Ok)

withdrawal(accts, deps, tx) ==
    IF ~tx.amount.some THEN Return(accts, deps, "MissingAmount")
    ELSE IF tx.amount.val <= 0 THEN Return(accts, deps, "InvalidAmount")
    ELSE LET a1 == OrInsertAccount(accts, tx.client)
         IN IF a1[tx.client].available < tx.amount.val
            THEN Return(a1, deps, "InsufficientFunds")
            ELSE Return([a1 EXCEPT ![tx.client].available = @ - tx.amount.val], deps, Ok)

\* mutant of the lookup: the stored client is not compared with the caller
DepositFoundAnyClient(deps, tx) == tx.tx \in DOMAIN deps

\* the lookup shared by dispute, resolve and chargeback: the deposit exists and is the caller's
DepositFound(deps, tx) == tx.tx \in DOMAIN deps /\ deps[tx.tx].client = tx.client

\* mutant of dispute: refuses to take available below zero
disputeChecksFunds(accts, deps, tx) ==
    IF ~DepositFound(deps, tx) THEN Return(accts, deps, "TransactionNotFound")
    ELSE IF deps[tx.tx].disputed THEN Return(accts, deps, "AlreadyUnderDispute")
    ELSE IF tx.client \notin DOMAIN accts
         THEN Return(accts, [deps EXCEPT ![tx.tx].disputed = TRUE], Panic)
    ELSE IF accts[tx.client].available < deps[tx.tx].amount
         THEN Return(accts, deps, "InsufficientFunds")
    ELSE Return([accts EXCEPT ![tx.client].available = @ - deps[tx.tx].amount,
                              ![tx.client].held = @ + deps[tx.tx].amount],
                [deps EXCEPT ![tx.tx].disputed = TRUE], Ok)

\* mutant of dispute: any caller may dispute a deposit, the funds move in the owner's account
disputeAnyCaller(accts, deps, tx) ==
    IF tx.tx \notin DOMAIN deps THEN Return(accts, deps, "TransactionNotFound")
    ELSE IF deps[tx.tx].disputed THEN Return(accts, deps, "AlreadyUnderDispute")
    ELSE LET owner == deps[tx.tx].client
         IN Return([accts EXCEPT ![owner].available = @ - deps[tx.tx].amount,
                                 ![owner].held = @ + deps[tx.tx].amount],
                   [deps EXCEPT ![tx.tx].disputed = TRUE], Ok)

dispute(accts, deps, tx) ==
    IF ~DepositFound(deps, tx) THEN Return(accts, deps, "TransactionNotFound")
    ELSE IF deps[tx.tx].disputed THEN Return(accts, deps, "AlreadyUnderDispute")
    ELSE LET d1 == [deps EXCEPT ![tx.tx].disputed = TRUE]
             amount == deps[tx.tx].amount
         IN IF tx.client \notin DOMAIN accts THEN Return(accts, d1, Panic)
            ELSE Return([accts EXCEPT ![tx.client].available = @ - amount,
                                      ![tx.client].held = @ + amount], d1, Ok)

\* mutants of resolve: the held funds are released but not returned to available;
\* the funds move back but the disputed flag stays set
resolveVoids(accts, deps, tx) ==
    IF ~DepositFound(deps, tx) THEN Return(accts, deps, "TransactionNotFound")
    ELSE IF ~deps[tx.tx].disputed THEN Return(accts, deps, "NotUnderDispute")
    ELSE IF tx.client \notin DOMAIN accts
         THEN Return(accts, [deps EXCEPT ![tx.tx].disputed = FALSE], Panic)
    ELSE Return([accts EXCEPT ![tx.client].held = @ - deps[tx.tx].amount],
                [deps EXCEPT ![tx.tx].disputed = FALSE], Ok)

resolveKeepsFlag(accts, deps, tx) ==
    IF ~DepositFound(deps, tx) THEN Return(accts, deps, "TransactionNotFound")
    ELSE IF ~deps[tx.tx].disputed THEN Return(accts, deps, "NotUnderDispute")
    ELSE IF tx.client \notin DOMAIN accts
         THEN Return(accts, deps, Panic)
    ELSE Return([accts EXCEPT ![tx.client].held = @ - deps[tx.tx].amount,
                              ![tx.client].available = @ + deps[tx.tx].amount],
                deps, Ok)

resolve(accts, deps, tx) ==
    IF ~DepositFound(deps, tx) THEN Return(accts, deps, "TransactionNotFound")
    ELSE IF ~deps[tx.tx].disputed THEN Return(accts, deps, "NotUnderDispute")
    ELSE LET d1 == [deps EXCEPT ![tx.tx].disputed = FALSE]
             amount == deps[tx.tx].amount
         IN IF tx.client \notin DOMAIN accts THEN Return(accts, d1, Panic)
            ELSE Return([accts EXCEPT ![tx.client].held = @ - amount,
                                      ![tx.client].available = @ + amount], d1, Ok)

\* mutant of chargeback: the amount is taken from available as well as from held
chargebackFromAvailable(accts, deps, tx) ==
    IF ~DepositFound(deps, tx) THEN Return(accts, deps, "TransactionNotFound")
    ELSE IF ~deps[tx.tx].disputed THEN Return(accts, deps, "NotUnderDispute")
    ELSE IF tx.client \notin DOMAIN accts
         THEN Return(accts, [deps EXCEPT ![tx.tx].disputed = FALSE], Panic)
    ELSE Return([accts EXCEPT ![tx.client].held = @ - deps[tx.tx].amount,
                              ![tx.client].available = @ - deps[tx.tx].amount,
                              ![tx.client].locked = TRUE],
                [deps EXCEPT ![tx.tx].disputed = FALSE], Ok)

\* mutant of chargeback: the account is not locked
chargebackNoLock(accts, deps, tx) ==
    IF ~DepositFound(deps, tx) THEN Return(accts, deps, "TransactionNotFound")
    ELSE IF ~deps[tx.tx].disputed THEN Return(accts, deps, "NotUnderDispute")
    ELSE IF tx.client \notin DOMAIN accts
         THEN Return(accts, [deps EXCEPT ![tx.tx].disputed = FALSE], Panic)
    ELSE Return([accts EXCEPT ![tx.client].held = @ - deps[tx.tx].amount],
                [deps EXCEPT ![tx.tx].disputed = FALSE], Ok)

\* mutant of chargeback: the reversed deposit's record is dropped from the store
chargebackForgets(accts, deps, tx) ==
    IF ~DepositFound(deps, tx) THEN Return(accts, deps, "TransactionNotFound")
    ELSE IF ~deps[tx.tx].disputed THEN Return(accts, deps, "NotUnderDispute")
    ELSE IF tx.client \notin DOMAIN accts
         THEN Return(accts, [deps EXCEPT ![tx.tx].disputed = FALSE], Panic)
    ELSE Return([accts EXCEPT ![tx.client].held = @ - deps[tx.tx].amount,
                              ![tx.client].locked = TRUE],
                [t \in (DOMAIN deps) \ {tx.tx} |-> deps[t]], Ok)

\* mutant of chargeback: the reversed amount stays in held
chargebackKeepsHeld(accts, deps, tx) ==
    IF ~DepositFound(deps, tx) THEN Return(accts, deps, "TransactionNotFound")
    ELSE IF ~deps[tx.tx].disputed THEN Return(accts, deps, "NotUnderDispute")
    ELSE IF tx.client \notin DOMAIN accts
         THEN Return(accts, [deps EXCEPT ![tx.tx].disputed = FALSE], Panic)
    ELSE Return([accts EXCEPT ![tx.client].locked = TRUE],
                [deps EXCEPT ![tx.tx].disputed = FALSE], Ok)

chargeback(accts, deps, tx) ==
    IF ~DepositFound(deps, tx) THEN Return(accts, deps, "TransactionNotFound")
    ELSE IF ~deps[tx.tx].disputed THEN Return(accts, deps, "NotUnderDispute")
    ELSE LET d1 == [deps EXCEPT ![tx.tx].disputed = FALSE]
             amount == deps[tx.tx].amount
         IN IF tx.client \notin DOMAIN accts THEN Return(accts, d1, Panic)
            ELSE Return([accts EXCEPT ![tx.client].held = @ - amount,
                                      ![tx.client].locked = TRUE], d1, Ok)

process(accts, deps, tx) ==
    IF AccountIsFrozen(accts, tx) THEN Return(accts, deps, "AccountFrozen")
    ELSE CASE tx.tx_type = "Deposit" -> deposit(accts, deps, tx)
           [] tx.tx_type = "Withdrawal" -> withdrawal(accts, deps, tx)
           [] tx.tx_type = "Dispute" -> dispute(accts, deps, tx)
           [] tx.tx_type = "Resolve" -> resolve(accts, deps, tx)
           [] tx.tx_type = "Chargeback" -> chargeback(accts, deps, tx)

\* ---- the state machine: a caller feeding records to one engine (io.rs, process_csv) ----
\* accounts, deposits: the engine's two maps
\* chargedBack: history of the tx ids whose chargeback has returned Ok
\* withdrawn: history, per client, of the sum of the withdrawals that returned Ok
\* output: the texts write_accounts has produced so far for the ledger, one per run
VARIABLES accounts, deposits, chargedBack, withdrawn, output

vars == <<accounts, deposits, chargedBack, withdrawn, output>>

Init ==
    /\ accounts = EmptyAccounts
    /\ deposits = EmptyDeposits
    /\ chargedBack = {}
    /\ withdrawn = [c \in Clients |-> 0]
    /\ output = {}

\* the records of one type the caller can supply
RecordsOf(type, amounts) == [tx_type : {type}, client : Clients, tx : TxIds, amount : amounts]

\* dispute, resolve and chargeback never read tx.amount; their rows carry none
IgnoredAmounts == {None}

\* one call engine.process(&tx) per action; a rejected call that changes nothing
\* stutters, a call that panics ends the run and has no successor
Deposit ==
    \E tx \in RecordsOf("Deposit", Amounts) :
        LET r == process(accounts, deposits, tx)
        IN /\ r.result # Panic
           /\ accounts' = r.accounts /\ deposits' = r.deposits
           /\ UNCHANGED <<chargedBack, withdrawn, output>>

Withdrawal ==
    \E tx \in RecordsOf("Withdrawal", Amounts) :
        LET r == process(accounts, deposits, tx)
        IN /\ r.result # Panic
           /\ accounts' = r.accounts /\ deposits' = r.deposits
           /\ withdrawn' = IF r.result = Ok
                            THEN [withdrawn EXCEPT ![tx.client] = @ + tx.amount.val]
                            ELSE withdrawn
           /\ UNCHANGED <<chargedBack, output>>

Dispute ==
    \E tx \in RecordsOf("Dispute", IgnoredAmounts) :
        LET r == process(accounts, deposits, tx)
        IN /\ r.result # Panic
           /\ accounts' = r.accounts /\ deposits' = r.deposits
           /\ UNCHANGED <<chargedBack, withdrawn, output>>

Resolve ==
    \E tx \in RecordsOf("Resolve", IgnoredAmounts) :
        LET r == process(accounts, deposits, tx)
        IN /\ r.result # Panic
           /\ accounts' = r.accounts /\ deposits' = r.deposits
           /\ UNCHANGED <<chargedBack, withdrawn, output>>

Chargeback ==
    \E tx \in RecordsOf("Chargeback", IgnoredAmounts) :
        LET r == process(accounts, deposits, tx)
        IN /\ r.result # Panic
           /\ accounts' = r.accounts
           /\ deposits' = r.deposits
           /\ chargedBack' = IF r.result = Ok THEN chargedBack \cup {tx.tx} ELSE chargedBack
           /\ UNCHANGED <<withdrawn, output>>

Next == Deposit \/ Withdrawal \/ Dispute \/ Resolve \/ Chargeback

Spec == Init /\ [][Next]_vars

\* ---- the ledger at the end of Decimal's range ----
\* A rust_decimal Decimal is a 96-bit integer with a scale; the largest is Decimal::MAX
\* = 2^96 - 1 = 79228162514264337593543950335. Its operators + and += return the exact
\* sum of two values of scale 0, or panic ("Addition overflowed") when the sum is above
\* Decimal::MAX. The integers of the model do not reach that far, so in this section a
\* value is written half * 2^95 + units: a whole number of currency units (scale 0),
\* with units small against 2^95 = 39614081257132168796771975168. Decimal::MAX is
\* Wide(2, -1).
Wide(half, units) == [half |-> half, units |-> units]

\* Decimal + Decimal before the range check: the exact sum
WideAdd(a, b) == Wide(a.half + b.half, a.units + b.units)

\* the value fits a Decimal: at most Decimal::MAX = 2 * 2^95 - 1 in magnitude
WideInRange(v) ==
    \/ v.half \in {0 - 1, 0, 1}
    \/ v.half = 2 /\ v.units < 0
    \/ v.half = 0 - 2 /\ v.units > 0

\* amount > dec!(0)
WideIsPositive(v) == v.half > 0 \/ (v.half = 0 /\ v.units > 0)

\* sample amounts: -1, 0, 1, 2, 3, 4 and 2^95, whole numbers that an f64 and a Decimal
\* both hold exactly
WideAmountValues ==
    {Wide(0, 0 - 1), Wide(0, 0), Wide(0, 1), Wide(0, 2), Wide(0, 3), Wide(0, 4),
     Wide(1, 0)}

WideAmounts == {None} \cup {Some(v) : v \in WideAmountValues}

AccountNewWide(client) ==
    [client |-> client, available |-> Wide(0, 0), held |-> Wide(0, 0), locked |-> FALSE]

\* PaymentEngine::deposit on these values: as deposit above, and account.available +=
\* amount panics when the sum leaves the range; the account get-or-create made stays
depositWide(accts, deps, tx) ==
    IF ~tx.amount.some THEN Return(accts, deps, "MissingAmount")
    ELSE IF ~WideIsPositive(tx.amount.val) THEN Return(accts, deps, "InvalidAmount")
    ELSE IF tx.tx \in DOMAIN deps THEN Return(accts, deps, "DuplicateTransaction")
    ELSE LET a1 == IF tx.client \in DOMAIN accts THEN accts
                   ELSE MapInsert(accts, tx.client, AccountNewWide(tx.client))
             sum == WideAdd(a1[tx.client].available, tx.amount.val)
             a2 == [a1 EXCEPT ![tx.client].available = sum]
             d2 == MapInsert(deps, tx.tx, StoredDeposit(tx.client, tx.amount.val, FALSE))
         IN IF ~WideInRange(sum) THEN Return(a1, deps, Panic)
            ELSE Return(a2, d2, Ok)

\* process on a Deposit record: the frozen guard, then deposit
processWide(accts, deps, tx) ==
    IF AccountIsFrozen(accts, tx) THEN Return(accts, deps, "AccountFrozen")
    ELSE depositWide(accts, deps, tx)

\* one call engine.process(&tx) with a Deposit record; a call that panics ends the run
DepositWide ==
    \E tx \in RecordsOf("Deposit", WideAmounts) :
        LET r == processWide(accounts, deposits, tx)
        IN /\ r.result # Panic
           /\ accounts' = r.accounts /\ deposits' = r.deposits
           /\ UNCHANGED <<chargedBack, withdrawn, output>>

SpecOverflow == Init /\ [][DepositWide]_vars

\* ---- the report: main.rs calls write_accounts once the input is consumed ----
\* "{:.4}" of a Decimal: sign, integer digits, a point and four fraction digits; an
\* amount of the model counts quarters (.0000, .2500, .5000, .7500), so no digit is
\* rounded away
Format4(v) ==
    LET magnitude == IF v < 0 THEN 0 - v ELSE v
        hundredths == (magnitude % 4) * 25
    IN [negative |-> v < 0,
        whole |-> magnitude \div 4,
        fraction |-> <<hundredths \div 10, hundredths % 10, 0, 0>>]

AccountOutput(account) ==
    [client |-> account.client,
     available |-> Format4(account.available),
     held |-> Format4(account.held),
     total |-> Format4(total(account)),
     locked |-> account.locked]

\* accounts(): HashMap::values() visits every entry once, in an order fixed by the
\* hasher's per-process random keys (std RandomState): any order can come out
IterationOrders(accts) ==
    {order \in [1..Cardinality(DOMAIN accts) -> DOMAIN accts] :
        \A i, j \in DOMAIN order : order[i] = order[j] => i = j}

\* the rows one run of write_accounts serializes, in the order it visits them
write_accounts(accts, order) == [i \in DOMAIN order |-> AccountOutput(accts[order[i]])]

WriteAccounts ==
    /\ \E order \in IterationOrders(accounts) :
        output' = output \cup {write_accounts(accounts, order)}
    /\ UNCHANGED <<accounts, deposits, chargedBack, withdrawn>>

\* runs of the program on one input: the records are replayed, then each run reports
Replay == output = {} /\ Next

NextOutput == Replay \/ WriteAccounts

SpecOutput == Init /\ [][NextOutput]_vars

\* ---- helpers of the properties ----
\* the outcome of process on the current state, and whether it left both maps alone
Outcome(tx) == process(accounts, deposits, tx)
Untouched(r) == r.accounts = accounts /\ r.deposits = deposits

Record(type, c, t, a) == [tx_type |-> type, client |-> c, tx |-> t, amount |-> a]
IsLocked(c) == c \in DOMAIN accounts /\ accounts[c].locked
DisputeLike == {"Dispute", "Resolve", "Chargeback"}

\* C1: every process call that returns an error leaves the set of accounts, every
\* account's fields and every deposit record as they were before the call.
C1_ErrorLeavesLedgerUnchanged ==
    \A tx \in TransactionRecord :
        LET r == Outcome(tx) IN r.result # Ok => Untouched(r)

\* C2: if an account exists for the record's client and is locked, process returns
\* AccountFrozen for each of the five types, whatever the tx id and the amount, and
\* changes no account and no deposit record; no type-specific error comes first.
C2_FrozenRejectsAll ==
    \A c \in Clients : IsLocked(c) =>
        \A tx \in TransactionRecord : tx.client = c =>
            LET r == Outcome(tx) IN r.result = "AccountFrozen" /\ Untouched(r)

\* a locked account with a deposit still under dispute: resolving it, a duplicate deposit
\* and a withdrawal without amount are all answered AccountFrozen
C2_Witness ==
    \E c \in Clients, t \in DOMAIN deposits :
        /\ IsLocked(c) /\ deposits[t].client = c /\ deposits[t].disputed
        /\ Outcome(Record("Resolve", c, t, None)).result = "AccountFrozen"
        /\ Outcome(Record("Deposit", c, t, Some(1))).result = "AccountFrozen"
        /\ Outcome(Record("Withdrawal", c, t, None)).result = "AccountFrozen"

\* C3: once an account is locked, every later call (for any client) leaves it in the
\* ledger, locked, with the same available and held.
C3_LockIsPermanent ==
    [][\A c \in Clients : IsLocked(c) => c \in DOMAIN accounts' /\ accounts'[c] = accounts[c]]_vars

\* an account locked with a negative available and money still held, next to an
\* account of the other client
C3_Witness ==
    \E c \in Clients, o \in DOMAIN accounts :
        /\ IsLocked(c) /\ accounts[c].available < 0 /\ accounts[c].held > 0
        /\ o # c
        /\ chargedBack # {}

\* C4 as stated: a Dispute, Resolve or Chargeback whose client differs from the client
\* stored in the referenced deposit record always fails with TransactionNotFound and
\* changes no account and no deposit record.
C4_MismatchAlwaysNotFound ==
    \A type \in DisputeLike, c \in Clients, t \in DOMAIN deposits :
        deposits[t].client # c =>
            LET r == Outcome(Record(type, c, t, None))
            IN r.result = "TransactionNotFound" /\ Untouched(r)

\* C4 amended: such a call always fails and changes nothing; the error is
\* TransactionNotFound when the caller's account is not locked and AccountFrozen when it is.
C4_MismatchRejected ==
    \A type \in DisputeLike, c \in Clients, t \in DOMAIN deposits :
        deposits[t].client # c =>
            LET r == Outcome(Record(type, c, t, None))
            IN /\ r.result = IF IsLocked(c) THEN "AccountFrozen" ELSE "TransactionNotFound"
               /\ Untouched(r)

\* a client with an unlocked account of its own asks to charge back the other client's
\* disputed deposit and gets TransactionNotFound
C4_Witness ==
    \E c \in DOMAIN accounts, t \in DOMAIN deposits :
        /\ deposits[t].client # c /\ deposits[t].disputed /\ ~accounts[c].locked
        /\ Outcome(Record("Chargeback", c, t, None)).result = "TransactionNotFound"

\* C5 as stated: once tx id X has a deposit record, a Deposit with tx id X returns
\* DuplicateTransaction whatever its client and amount, and changes nothing (read here
\* with the amount present and positive, the reading kindest to the claim).
C5_DuplicateAlwaysDuplicate ==
    \A c \in Clients, t \in DOMAIN deposits, v \in AmountValues :
        v > 0 =>
            LET r == Outcome(Record("Deposit", c, t, Some(v)))
            IN r.result = "DuplicateTransaction" /\ Untouched(r)

\* C5 amended: such a Deposit is always rejected and changes nothing (no balance, no new
\* account, the stored record kept); the error is DuplicateTransaction when the amount is
\* present and positive and the client's account is not locked, and otherwise the error
\* of the earlier check (AccountFrozen, MissingAmount, InvalidAmount).
C5_DuplicateRejected ==
    \A c \in Clients, t \in DOMAIN deposits, a \in Amounts :
        LET r == Outcome(Record("Deposit", c, t, a))
        IN /\ Untouched(r)
           /\ r.result = IF IsLocked(c) THEN "AccountFrozen"
                         ELSE IF ~a.some THEN "MissingAmount"
                         ELSE IF a.val <= 0 THEN "InvalidAmount"
                         ELSE "DuplicateTransaction"

\* a client without an account reuses the other client's tx id with another positive
\* amount: DuplicateTransaction, and no account appears for it
C5_Witness ==
    \E c \in Clients, t \in DOMAIN deposits, v \in AmountValues :
        /\ c \notin DOMAIN accounts /\ deposits[t].client # c
        /\ v > 0 /\ v # deposits[t].amount
        /\ Outcome(Record("Deposit", c, t, Some(v))).result = "DuplicateTransaction"
        /\ Untouched(Outcome(Record("Deposit", c, t, Some(v))))

\* the state of a deposit record in the record's state machine
DepositState(deps, cb, t) ==
    IF deps[t].disputed THEN "Disputed" ELSE IF t \in cb THEN "ChargedBack" ELSE "Normal"

DepositStateNow(t) == DepositState(deposits, chargedBack, t)

\* every step keeps each record and moves it along an edge of the state machine or not at all
C6_StepFollowsEdges ==
    \A t \in DOMAIN deposits :
        /\ t \in DOMAIN deposits'
        /\ \/ DepositState(deposits', chargedBack', t) = DepositStateNow(t)
           \/ <<DepositStateNow(t), DepositState(deposits', chargedBack', t)>> \in
                 {<<"Normal", "Disputed">>, <<"Disputed", "Normal">>, <<"Disputed", "ChargedBack">>}

\* which call moves a record: a successful dispute finds it Normal and leaves it
\* Disputed, a successful resolve or chargeback finds it Disputed and leaves it not
\* disputed; deposits and withdrawals move no record
C6_EdgesAreLabelled ==
    /\ \A type \in DisputeLike, c \in Clients, t \in TxIds :
          LET r == Outcome(Record(type, c, t, None))
          IN r.result = Ok =>
                /\ t \in DOMAIN deposits
                /\ DepositStateNow(t) = (IF type = "Dispute" THEN "Normal" ELSE "Disputed")
                /\ r.deposits[t].disputed = (type = "Dispute")
                /\ \A u \in DOMAIN deposits \ {t} : r.deposits[u] = deposits[u]
    /\ \A type \in {"Deposit", "Withdrawal"}, c \in Clients, t \in TxIds, a \in Amounts :
          \A u \in DOMAIN deposits : Outcome(Record(type, c, t, a)).deposits[u] = deposits[u]

\* Charged-back is terminal: no dispute, resolve or chargeback naming a charged-back
\* deposit succeeds, whoever sends it
C6_ChargedBackIsTerminal ==
    \A t \in chargedBack, type \in DisputeLike, c \in Clients :
        Outcome(Record(type, c, t, None)).result # Ok

\* C6: a deposit record changes state only by Normal --dispute--> Disputed,
\* Disputed --resolve--> Normal and Disputed --chargeback--> Charged-back, and after a
\* Chargeback of deposit X has succeeded no later Dispute, Resolve or Chargeback of X succeeds.
C6_DepositStateMachine ==
    /\ [][C6_StepFollowsEdges]_vars
    /\ [](C6_EdgesAreLabelled /\ C6_ChargedBackIsTerminal)

\* a charged-back deposit beside a deposit of the same client that is stuck under
\* dispute; the owner's new dispute of the charged-back one is refused
C6_Witness ==
    \E t \in chargedBack, u \in DOMAIN deposits :
        /\ u # t /\ deposits[u].client = deposits[t].client /\ deposits[u].disputed
        /\ DepositStateNow(t) = "ChargedBack"
        /\ Outcome(Record("Dispute", deposits[t].client, t, None)).result = "AccountFrozen"

\* the deposits a client owns, i.e. whose stored client it is
OwnedBy(c) == {t \in DOMAIN deposits : deposits[t].client = c}

\* C7: a Dispute by the owning client on a not-disputed deposit of an unlocked account
\* succeeds: the record becomes disputed, the deposit's amount leaves available and
\* enters held, total and locked stay, also when available goes negative; on an already
\* disputed deposit it fails with AlreadyUnderDispute.
C7_DisputeMovesToHeld ==
    \A c \in Clients : ~IsLocked(c) =>
        \A t \in OwnedBy(c) :
            LET r == Outcome(Record("Dispute", c, t, None))
            IN IF deposits[t].disputed
               THEN r.result = "AlreadyUnderDispute"
               ELSE /\ r.result = Ok
                    /\ c \in DOMAIN accounts
                    /\ r.deposits[t].disputed
                    /\ r.accounts[c].available = accounts[c].available - deposits[t].amount
                    /\ r.accounts[c].held = accounts[c].held + deposits[t].amount
                    /\ total(r.accounts[c]) = total(accounts[c])
                    /\ r.accounts[c].locked = accounts[c].locked

\* a deposit whose money has been withdrawn is disputed: the dispute succeeds and
\* available goes below zero
C7_Witness ==
    \E c \in DOMAIN accounts, t \in DOMAIN deposits :
        /\ deposits[t].client = c /\ ~deposits[t].disputed /\ ~accounts[c].locked
        /\ accounts[c].available < deposits[t].amount
        /\ Outcome(Record("Dispute", c, t, None)).result = Ok
        /\ Outcome(Record("Dispute", c, t, None)).accounts[c].available < 0

\* what C8 says a chargeback by the owner c of deposit t does
C8_Effect(c, t) ==
    LET r == Outcome(Record("Chargeback", c, t, None))
    IN IF deposits[t].disputed
       THEN /\ r.result = Ok
            /\ ~r.deposits[t].disputed
            /\ r.accounts[c].held = accounts[c].held - deposits[t].amount
            /\ r.accounts[c].available = accounts[c].available
            /\ total(r.accounts[c]) = total(accounts[c]) - deposits[t].amount
            /\ r.accounts[c].locked
       ELSE /\ r.result = "NotUnderDispute"
            /\ r.accounts[c].locked = accounts[c].locked

\* C8 as stated: a Chargeback by the owning client on a disputed deposit clears the flag,
\* takes the amount from held only and locks the account; on a deposit that is not
\* disputed it fails with NotUnderDispute and does not lock the account.
C8_ChargebackAlwaysApplies ==
    \A c \in Clients : \A t \in OwnedBy(c) : c \in DOMAIN accounts /\ C8_Effect(c, t)

\* C8 amended: the same, for an owning client whose account is not locked; on a locked
\* account the Chargeback fails with AccountFrozen and changes nothing, so a second
\* disputed deposit of the client stays disputed and held.
C8_ChargebackVoidsAndLocks ==
    \A c \in Clients : \A t \in OwnedBy(c) :
        /\ c \in DOMAIN accounts
        /\ IF accounts[c].locked
           THEN LET r == Outcome(Record("Chargeback", c, t, None))
                IN r.result = "AccountFrozen" /\ Untouched(r)
           ELSE C8_Effect(c, t)

\* a disputed deposit whose money has been withdrawn is charged back: total goes negative
C8_Witness ==
    \E c \in DOMAIN accounts, t \in DOMAIN deposits :
        /\ deposits[t].client = c /\ deposits[t].disputed /\ ~accounts[c].locked
        /\ Outcome(Record("Chargeback", c, t, None)).result = Ok
        /\ total(Outcome(Record("Chargeback", c, t, None)).accounts[c]) < 0
        /\ Outcome(Record("Chargeback", c, t, None)).accounts[c].locked

\* what C9 says a resolve by the owner c of deposit t does
C9_Effect(c, t) ==
    LET r == Outcome(Record("Resolve", c, t, None))
    IN IF deposits[t].disputed
       THEN /\ r.result = Ok
            /\ ~r.deposits[t].disputed
            /\ r.accounts[c].held = accounts[c].held - deposits[t].amount
            /\ r.accounts[c].available = accounts[c].available + deposits[t].amount
            /\ total(r.accounts[c]) = total(accounts[c])
            /\ r.accounts[c].locked = accounts[c].locked
       ELSE r.result = "NotUnderDispute" /\ Untouched(r)

\* C9 as stated: a Resolve by the owning client on a disputed deposit clears the flag and
\* moves the amount from held back to available, total and locked unchanged; on a deposit
\* that is not disputed it fails with NotUnderDispute and changes nothing.
C9_ResolveAlwaysApplies ==
    \A c \in Clients : \A t \in OwnedBy(c) : c \in DOMAIN accounts /\ C9_Effect(c, t)

\* C9 amended: the same, for an owning client whose account is not locked; on a locked
\* account the Resolve fails with AccountFrozen and changes nothing.
C9_ResolveReturnsFunds ==
    \A c \in Clients : \A t \in OwnedBy(c) :
        /\ c \in DOMAIN accounts
        /\ IF accounts[c].locked
           THEN LET r == Outcome(Record("Resolve", c, t, None))
                IN r.result = "AccountFrozen" /\ Untouched(r)
           ELSE C9_Effect(c, t)

\* a disputed deposit is resolved while available is negative and a second deposit of the
\* client stays under dispute
C9_Witness ==
    \E c \in DOMAIN accounts, t \in DOMAIN deposits, u \in DOMAIN deposits :
        /\ deposits[t].client = c /\ deposits[t].disputed /\ ~accounts[c].locked
        /\ u # t /\ deposits[u].client = c /\ deposits[u].disputed
        /\ accounts[c].available < 0
        /\ Outcome(Record("Resolve", c, t, None)).result = Ok
        /\ Outcome(Record("Resolve", c, t, None)).accounts[c].held = deposits[u].amount

\* C10: when a Dispute succeeds, the Resolve of the same deposit right after it succeeds
\* and restores accounts and deposit records to their state before the Dispute, and the
\* Dispute after that succeeds again with the same available and held as the first.
C10_DisputeResolveRoundTrip ==
    \A c \in Clients, t \in TxIds :
        LET d1 == Outcome(Record("Dispute", c, t, None))
            rs == process(d1.accounts, d1.deposits, Record("Resolve", c, t, None))
            d2 == process(rs.accounts, rs.deposits, Record("Dispute", c, t, None))
        IN d1.result = Ok =>
              /\ rs.result = Ok
              /\ rs.accounts = accounts /\ rs.deposits = deposits
              /\ d2.result = Ok
              /\ d2.accounts[c].available = d1.accounts[c].available
              /\ d2.accounts[c].held = d1.accounts[c].held

\* a deposit that can be disputed, with its money withdrawn and another deposit of the
\* client held: the round trip passes through a negative available
C10_Witness ==
    \E c \in DOMAIN accounts, t \in DOMAIN deposits :
        /\ deposits[t].client = c /\ accounts[c].held > 0
        /\ accounts[c].available < deposits[t].amount
        /\ Outcome(Record("Dispute", c, t, None)).result = Ok


\* the balances process starts from for client c: those of its account, or of the
\* account get-or-create would make
AvailableOf(c) == IF c \in DOMAIN accounts THEN accounts[c].available ELSE 0
HeldOf(c) == IF c \in DOMAIN accounts THEN accounts[c].held ELSE 0

PositiveAmounts == {v \in AmountValues : v > 0}

\* C11: a Withdrawal with a positive amount on an unlocked client fails with
\* InsufficientFunds exactly when available < amount; with available = amount it
\* succeeds and leaves zero; a successful withdrawal subtracts exactly the amount from
\* available, leaves held, locked and all deposit records alone, and never leaves
\* available negative.
C11_WithdrawalStrictCheck ==
    \A c \in Clients : ~IsLocked(c) =>
        \A t \in TxIds, v \in PositiveAmounts :
            LET r == Outcome(Record("Withdrawal", c, t, Some(v)))
            IN IF AvailableOf(c) < v
               THEN r.result = "InsufficientFunds"
               ELSE /\ r.result = Ok
                    /\ r.accounts[c].available = AvailableOf(c) - v
                    /\ r.accounts[c].available >= 0
                    /\ (AvailableOf(c) = v => r.accounts[c].available = 0)
                    /\ r.accounts[c].held = HeldOf(c)
                    /\ ~r.accounts[c].locked
                    /\ r.deposits = deposits

\* an account whose whole available balance is withdrawn while other money is held
C11_Witness ==
    \E c \in DOMAIN accounts, t \in TxIds, v \in PositiveAmounts :
        /\ ~accounts[c].locked /\ accounts[c].available = v /\ accounts[c].held > 0
        /\ Outcome(Record("Withdrawal", c, t, Some(v))).result = Ok
        /\ Outcome(Record("Withdrawal", c, t, Some(v))).accounts[c].available = 0


\* every record the reader can hand to process
AllRecords ==
    UNION ({RecordsOf(type, Amounts) : type \in {"Deposit", "Withdrawal"}}
           \cup {RecordsOf(type, IgnoredAmounts) : type \in DisputeLike})

\* the account the call made for a client that had none, before the call's own effect
CreatedFromZero(r, tx) ==
    LET a == r.accounts[tx.client]
        gain == IF tx.tx_type = "Deposit" /\ r.result = Ok THEN tx.amount.val ELSE 0
    IN a.client = tx.client /\ a.available - gain = 0 /\ a.held = 0 /\ ~a.locked

\* C12: an account comes into being only when a Deposit or a Withdrawal names a
\* client seen for the first time, it starts from available = held = 0 and
\* locked = false, and no account is ever deleted; a positive Withdrawal on a
\* brand-new client returns InsufficientFunds and still leaves the new account with
\* available 0; Dispute, Resolve and Chargeback never create an account.
C12_AccountCreation ==
    /\ \A tx \in AllRecords :
        LET r == Outcome(tx)
            created == (DOMAIN r.accounts) \ (DOMAIN accounts)
        IN /\ DOMAIN accounts \subseteq DOMAIN r.accounts
           /\ created \subseteq {tx.client}
           /\ created # {} =>
                /\ tx.tx_type \in {"Deposit", "Withdrawal"}
                /\ CreatedFromZero(r, tx)
           /\ tx.tx_type \in DisputeLike => created = {}
    /\ \A c \in Clients \ DOMAIN accounts, t \in TxIds, v \in PositiveAmounts :
        LET r == Outcome(Record("Withdrawal", c, t, Some(v)))
        IN /\ r.result = "InsufficientFunds"
           /\ c \in DOMAIN r.accounts
           /\ r.accounts[c] = AccountNew(c)

\* one client has an account and the other has none: a withdrawal creates the second
\* account, a dispute of an existing deposit by the unseen client creates nothing
C12_Witness ==
    \E c \in Clients \ DOMAIN accounts, t \in DOMAIN deposits :
        /\ DOMAIN accounts # {}
        /\ c \in DOMAIN Outcome(Record("Withdrawal", c, t, Some(1))).accounts
        /\ c \notin DOMAIN Outcome(Record("Dispute", c, t, None)).accounts


\* C13: an accepted Deposit (positive amount, transaction id not yet used by a
\* deposit, client not locked) gets or creates the account, adds exactly the amount
\* to available, leaves held and locked alone and inserts exactly one deposit record
\* {client, amount, disputed: false}; deposits after the first add to the balance the
\* earlier ones left.
C13_DepositCredits ==
    \A c \in Clients : ~IsLocked(c) =>
        \A t \in TxIds \ DOMAIN deposits, v \in PositiveAmounts :
            LET r == Outcome(Record("Deposit", c, t, Some(v)))
            IN /\ r.result = Ok
               /\ DOMAIN r.accounts = DOMAIN accounts \cup {c}
               /\ r.accounts[c].client = c
               /\ r.accounts[c].available = AvailableOf(c) + v
               /\ r.accounts[c].held = HeldOf(c)
               /\ ~r.accounts[c].locked
               /\ DOMAIN r.deposits = DOMAIN deposits \cup {t}
               /\ r.deposits[t] = StoredDeposit(c, v, FALSE)
               /\ \A u \in DOMAIN deposits : r.deposits[u] = deposits[u]

\* a second deposit lands on an account that already holds money from the first
C13_Witness ==
    \E c \in DOMAIN accounts, t \in TxIds \ DOMAIN deposits :
        /\ ~accounts[c].locked /\ accounts[c].available > 0
        /\ \E u \in DOMAIN deposits : deposits[u].client = c
        /\ Outcome(Record("Deposit", c, t, Some(2))).accounts[c].available
               = accounts[c].available + 2

NonPositiveAmounts == {v \in AmountValues : v <= 0}

\* C14: for a client that is unlocked or not yet seen, a Deposit or Withdrawal with
\* no amount returns MissingAmount and one with an amount <= 0 returns InvalidAmount;
\* the amount checks run before the duplicate-id check and before get-or-create, so
\* no account is created, no record is inserted and no balance changes.
C14_AmountValidatedFirst ==
    \A c \in Clients : ~IsLocked(c) =>
        \A type \in {"Deposit", "Withdrawal"}, t \in TxIds :
            /\ LET r == Outcome(Record(type, c, t, None))
               IN r.result = "MissingAmount" /\ Untouched(r)
            /\ \A v \in NonPositiveAmounts :
                LET r == Outcome(Record(type, c, t, Some(v)))
                IN r.result = "InvalidAmount" /\ Untouched(r)

\* an unseen client re-uses the id of a stored deposit with amount zero: the amount
\* is refused before the duplicate is noticed and before the account is made
C14_Witness ==
    \E c \in Clients \ DOMAIN accounts, t \in DOMAIN deposits :
        /\ Outcome(Record("Deposit", c, t, Some(0))).result = "InvalidAmount"
        /\ Outcome(Record("Deposit", c, t, None)).result = "MissingAmount"
        /\ c \notin DOMAIN Outcome(Record("Withdrawal", c, t, Some(0))).accounts


\* C15: a withdrawal never creates a deposit record, so a Dispute, Resolve or
\* Chargeback whose transaction id was used by a withdrawal and by no accepted
\* deposit fails with TransactionNotFound, as for an id never seen (client unlocked).
C15_WithdrawalsNotDisputable ==
    \A w \in RecordsOf("Withdrawal", Amounts) :
        LET r == Outcome(w)
        IN /\ r.deposits = deposits
           /\ w.tx \notin DOMAIN deposits =>
                \A type \in DisputeLike, c \in Clients :
                    ~(c \in DOMAIN r.accounts /\ r.accounts[c].locked) =>
                        LET after == process(r.accounts, r.deposits, Record(type, c, w.tx, None))
                            never == Outcome(Record(type, c, w.tx, None))
                        IN /\ after.result = "TransactionNotFound"
                           /\ after.result = never.result
                           /\ after.accounts = r.accounts
                           /\ after.deposits = r.deposits

\* a withdrawal under an id no deposit used succeeds, and a dispute of that id by the
\* same client is then refused as not found
C15_Witness ==
    \E c \in DOMAIN accounts, t \in TxIds \ DOMAIN deposits :
        LET r == Outcome(Record("Withdrawal", c, t, Some(1)))
        IN /\ r.result = Ok
           /\ process(r.accounts, r.deposits, Record("Dispute", c, t, None)).result
                  = "TransactionNotFound"


\* C16: a record that process rejects can be submitted any number of times in a
\* row: no call mutates the state and each call returns the same error kind.
\* (A rejected call that changed nothing is followed by the same call in the same
\* state; the two calls below are the first and the second of the row.)
C16_RejectionIdempotent ==
    \A tx \in AllRecords :
        LET first == Outcome(tx)
            second == process(first.accounts, first.deposits, tx)
        IN first.result # Ok =>
            /\ Untouched(first)
            /\ second.result = first.result
            /\ second.accounts = first.accounts
            /\ second.deposits = first.deposits


\* C19: a deposit record is created exactly once per accepted deposit and is never
\* removed or overwritten: a tx id that has a record keeps a record with the same
\* client and the same amount through every call, only the disputed flag of a record
\* changes, and nothing but an accepted Deposit adds a record.
C19_RecordsArePermanent ==
    \A tx \in AllRecords :
        LET r == Outcome(tx)
            added == (DOMAIN r.deposits) \ (DOMAIN deposits)
        IN /\ DOMAIN deposits \subseteq DOMAIN r.deposits
           /\ \A t \in DOMAIN deposits :
                /\ r.deposits[t].client = deposits[t].client
                /\ r.deposits[t].amount = deposits[t].amount
           /\ added = IF tx.tx_type = "Deposit" /\ r.result = Ok THEN {tx.tx} ELSE {}

\* a disputed deposit is charged back and its record stays, while a second deposit
\* under its id, by its owner or by another client, is refused
C19_Witness ==
    \E t \in DOMAIN deposits :
        LET c == deposits[t].client
            r == Outcome(Record("Chargeback", c, t, None))
        IN /\ deposits[t].disputed /\ r.result = Ok
           /\ r.deposits[t].client = c /\ r.deposits[t].amount = deposits[t].amount
           /\ \E o \in Clients \ {c} :
                Outcome(Record("Deposit", o, t, Some(2))).result = "DuplicateTransaction"

\* C20: a process call with record.client = C, accepted or rejected and whatever
\* tx id it names (another client's included), changes no account of a client other
\* than C and no deposit record whose stored client is not C.
C20_ClientIsolation ==
    \A tx \in AllRecords :
        LET r == Outcome(tx)
        IN /\ \A c \in Clients \ {tx.client} :
                /\ c \in DOMAIN r.accounts <=> c \in DOMAIN accounts
                /\ c \in DOMAIN accounts => r.accounts[c] = accounts[c]
           /\ \A t \in DOMAIN deposits :
                deposits[t].client # tx.client =>
                    t \in DOMAIN r.deposits /\ r.deposits[t] = deposits[t]
           /\ \A t \in (DOMAIN r.deposits) \ (DOMAIN deposits) :
                r.deposits[t].client = tx.client

\* two clients have accounts; one names the other's undisputed deposit in a dispute
\* and is refused, and its own deposit leaves the other's account alone
C20_Witness ==
    \E t \in DOMAIN deposits, c \in DOMAIN accounts :
        /\ deposits[t].client # c /\ ~deposits[t].disputed /\ ~accounts[c].locked
        /\ deposits[t].client \in DOMAIN accounts
        /\ Outcome(Record("Dispute", c, t, None)).result = "TransactionNotFound"
        /\ \E u \in TxIds \ DOMAIN deposits :
            Outcome(Record("Deposit", c, u, Some(1))).result = Ok


\* C17: replaying the same ordered records from an empty engine always gives the same
\* result for each call and the same final accounts, and the final output produced
\* from accounts() is the same text, with the same accounts in the same order, in
\* every run. (process is a function of the state and the record, so the runs reach
\* the same ledger; output holds what their reports looked like.)
C17_OutputReproducible == Cardinality(output) <= 1

\* every deposit record's client has an account
C18_DepositsHaveAccounts ==
    \A t \in DOMAIN deposits : deposits[t].client \in DOMAIN accounts

\* C18: process never panics or aborts, whatever the sequence of records: every
\* deposit record's client has an account, so the expect lookups of dispute, resolve
\* and chargeback cannot fail, and every rule violation comes back as a typed error.
C18_NeverPanics ==
    /\ C18_DepositsHaveAccounts
    /\ \A tx \in RecordsOf("Deposit", WideAmounts) :
        processWide(accounts, deposits, tx).result \in PaymentError \cup {Ok}

\* the sum of the stored amounts of the deposits in S
RECURSIVE SumAmounts(_)
SumAmounts(S) ==
    IF S = {} THEN 0
    ELSE LET t == CHOOSE u \in S : TRUE
         IN deposits[t].amount + SumAmounts(S \ {t})

\* the deposits of client c that are under dispute now
DisputedOf(c) == {t \in OwnedBy(c) : deposits[t].disputed}

\* C21: in every reachable state each account's held is the sum of the amounts of the
\* client's deposit records whose disputed flag is set; so held is never negative and
\* is zero exactly when the client has no disputed deposit.
C21_HeldIsDisputedSum ==
    \A c \in DOMAIN accounts :
        /\ accounts[c].held = SumAmounts(DisputedOf(c))
        /\ accounts[c].held >= 0
        /\ accounts[c].held = 0 <=> DisputedOf(c) = {}

\* a client was charged back for one deposit while another of its deposits is still
\* disputed: held is the amount of the second alone
C21_Witness ==
    \E c \in DOMAIN accounts, t \in chargedBack :
        /\ deposits[t].client = c /\ ~deposits[t].disputed
        /\ DisputedOf(c) # {}
        /\ accounts[c].held = SumAmounts(DisputedOf(c))
        /\ accounts[c].held > 0


\* the deposits of client c whose chargeback has succeeded
ChargedBackOf(c) == OwnedBy(c) \cap chargedBack

\* C22: balance conservation: in every reachable state, for each client,
\* available + held is the sum of the client's accepted deposits, minus the sum of
\* its accepted withdrawals, minus the sum of its charged-back deposits.
C22_BalanceConservation ==
    \A c \in DOMAIN accounts :
        total(accounts[c])
            = SumAmounts(OwnedBy(c)) - withdrawn[c] - SumAmounts(ChargedBackOf(c))

\* a client with two deposits, a withdrawal and a chargeback behind it
C22_Witness ==
    \E c \in DOMAIN accounts :
        /\ Cardinality(OwnedBy(c)) = 2 /\ withdrawn[c] > 0 /\ ChargedBackOf(c) # {}
        /\ total(accounts[c])
               = SumAmounts(OwnedBy(c)) - withdrawn[c] - SumAmounts(ChargedBackOf(c))


\* C23: negative balances come from disputes only: in every reachable state an
\* unlocked account has total = available + held >= 0, and available < 0 only while
\* the client has a deposit under dispute or the account is locked.
C23_NegativeOnlyFromDisputes ==
    \A c \in DOMAIN accounts :
        /\ ~accounts[c].locked => total(accounts[c]) >= 0
        /\ accounts[c].available < 0 => (DisputedOf(c) # {} \/ accounts[c].locked)

\* an unlocked account whose deposit was spent and then disputed: available is
\* negative, total is zero, and a resolve brings available back to zero
C23_Witness ==
    \E c \in DOMAIN accounts, t \in DOMAIN deposits :
        /\ ~accounts[c].locked /\ accounts[c].available < 0 /\ total(accounts[c]) = 0
        /\ t \in DisputedOf(c)
        /\ Outcome(Record("Resolve", c, t, None)).accounts[c].available >= 0

\* C24: an account is locked if and only if a Chargeback of one of the client's
\* deposits has succeeded, and at most one Chargeback ever succeeds per client: the
\* client's other deposits that were disputed at that moment stay disputed, and
\* their amounts stay in held, whatever is called afterwards.
C24_LockedIffChargedBack ==
    \A c \in DOMAIN accounts :
        /\ accounts[c].locked <=> ChargedBackOf(c) # {}
        /\ Cardinality(ChargedBackOf(c)) <= 1
        /\ accounts[c].locked =>
            \A tx \in AllRecords :
                LET r == Outcome(tx)
                IN /\ tx.client = c => r.result = "AccountFrozen"
                   /\ r.accounts[c] = accounts[c]
                   /\ \A t \in OwnedBy(c) : r.deposits[t] = deposits[t]

\* a locked client with one deposit charged back and another still disputed, whose
\* chargeback and resolve are both refused
C24_Witness ==
    \E c \in DOMAIN accounts, t \in DOMAIN deposits :
        /\ accounts[c].locked /\ Cardinality(ChargedBackOf(c)) = 1
        /\ t \in DisputedOf(c) /\ accounts[c].held = deposits[t].amount
        /\ Outcome(Record("Chargeback", c, t, None)).result = "AccountFrozen"
        /\ Outcome(Record("Resolve", c, t, None)).result = "AccountFrozen"

====
